---- MODULE Spec2Model ----
(***************************************************************************)
(* multi-juicer: the balancer's score cache (scoring service) and the      *)
(* progress-watchdog's reconciliation of Juice Shop challenge progress.    *)
(*                                                                         *)
(* Time is an integer instant.  0 is Go's zero time.Time.  Every solvedAt  *)
(* timestamp is an ISO-8601 UTC string produced by a Juice Shop instance,  *)
(* so == on two parsed time.Time values coincides with equality of the     *)
(* instants.                                                               *)
(***************************************************************************)
EXTENDS Integers, Sequences, FiniteSets, TLC

VARIABLES
    \* ---- cluster state shared by both programs
    depl,                \* team -> the team's JuiceShop deployment
    \* ---- balancer: ScoringService
    stream,              \* the open watch: [open, q]
    wpc,                 \* position of StartingScoringWorker / startScoringWatcher
    wev,                 \* the event being handled and the score computed for it
    currentScores,       \* s.currentScores
    currentScoresSorted, \* s.currentScoresSorted
    lastUpdate,          \* s.lastUpdate
    mutex,               \* s.currentScoresMutex: "free" or its holder
    now,                 \* the wall clock read by time.Now()
    cancelled,           \* ctx.Done() is closed
    rd,                  \* one caller of WaitForUpdatesNewerThan
    opens,               \* number of watches opened so far
    envBudget,           \* environment steps still allowed
    \* ---- progress-watchdog
    live,                \* team -> the state of the team's Juice Shop instance
    spc,                 \* position of createProgressUpdateJobs
    sjobs,               \* the jobs of the listed instances not yet sent
    wk,                  \* worker -> position and locals of workOnProgressUpdates
    hk,                  \* handler -> position and locals of a webhook request
    \* ---- pure functions applied to drawn inputs
    fn, rankIn, rankOrder, rankOut, cmpIn, cmpOut,
    arg, ret             \* argument and result of calculateScore,
                         \* EqualsIgnoringLastUpdate or GenerateContinueCode

scoreVars == <<stream, wpc, wev, currentScores, currentScoresSorted, lastUpdate,
               mutex, now, cancelled, rd, opens>>
pureVars == <<fn, rankIn, rankOrder, rankOut, cmpIn, cmpOut, arg, ret>>
syncVars == <<live, spc, sjobs, wk, hk>>
vars == <<depl, envBudget, scoreVars, syncVars, pureVars>>

(***************************************************************************)
(* Bounds and small value sets                                             *)
(***************************************************************************)
MaxEnv == 2          \* environment steps (deployment changes, stream closes) per run
MaxTicks == 2        \* ticker firings modelled per long-poll call
MaxSyncEnv == 3      \* solves, restarts, webhooks and failures per watchdog run
MaxConvEnv == 2      \* the same, in the run of both programs together
MaxReadEnv == 1      \* environment steps in the run that checks the long-poll calls
MaxPoolEnv == 1      \* readiness changes and failures in the run of the worker pool

Teams == {"t1", "t2"}
RankTeams == {"t1", "t2", "t3"}

\* The challenge catalog: key -> difficulty.  "X" is a key that is not in it.
KnownKeys == {"A", "B", "C"}
Difficulty(k) == CASE k = "A" -> 1 [] k = "B" -> 1 [] k = "C" -> 2 [] OTHER -> 0

ScoreMultiplier == 10
BonusScore == 50

Ch(k, t) == [Key |-> k, SolvedAt |-> t]

\* An annotation value: valid = FALSE stands for an absent or unparseable one.
Anno(valid, list) == [valid |-> valid, list |-> list]

\* A JuiceShop deployment: the three annotations and Status.ReadyReplicas.
Deployment(ch, findIt, fixIt, ready) ==
    [exists |-> TRUE, challenges |-> ch, findIt |-> findIt, fixIt |-> fixIt,
     ready |-> ready]

NoDeployment ==
    [exists |-> FALSE, challenges |-> Anno(FALSE, <<>>), findIt |-> "",
     fixIt |-> "", ready |-> 0]

(***************************************************************************)
(* Helpers on sequences                                                    *)
(***************************************************************************)
Range(s) == {s[i] : i \in DOMAIN s}
KeysOf(s) == {s[i].Key : i \in DOMAIN s}

RECURSIVE PermsOf(_)
PermsOf(S) ==
    IF S = {} THEN {<<>>}
    ELSE UNION {{<<x>> \o p : p \in PermsOf(S \ {x})} : x \in S}

(***************************************************************************)
(* TeamScore                                                               *)
(***************************************************************************)
TeamScore(name, score, position, challenges, lastUpd, ready) ==
    [Name |-> name, Score |-> score, Position |-> position,
     Challenges |-> challenges, LastUpdate |-> lastUpd,
     InstanceReadiness |-> ready]

RECURSIVE SameKeysFrom(_, _, _)
SameKeysFrom(a, b, i) ==
    IF i > Len(a) THEN TRUE
    ELSE IF a[i].Key # b[i].Key THEN FALSE
    ELSE SameKeysFrom(a, b, i + 1)

\* a variant that does not compare the positions
EqualsIgnoringPosition(t, other) ==
    IF t.Name # other.Name THEN FALSE
    ELSE IF t.Score # other.Score THEN FALSE
    ELSE IF Len(t.Challenges) # Len(other.Challenges) THEN FALSE
    ELSE IF ~SameKeysFrom(t.Challenges, other.Challenges, 1) THEN FALSE
    ELSE t.InstanceReadiness = other.InstanceReadiness

EqualsIgnoringLastUpdate(t, other) ==
    IF t.Name # other.Name THEN FALSE
    ELSE IF t.Score # other.Score THEN FALSE
    ELSE IF t.Position # other.Position THEN FALSE
    ELSE IF Len(t.Challenges) # Len(other.Challenges) THEN FALSE
    ELSE IF ~SameKeysFrom(t.Challenges, other.Challenges, 1) THEN FALSE
    ELSE t.InstanceReadiness = other.InstanceReadiness

(***************************************************************************)
(* calculateScore                                                          *)
(***************************************************************************)
RECURSIVE ScoreLoopStopsAtUnknown(_, _, _, _)
\* a variant of the loop that ends at the first key that is not in the catalog
ScoreLoopStopsAtUnknown(solved, i, score, names) ==
    IF i > Len(solved) \/ solved[i].Key \notin KnownKeys THEN <<score, names>>
    ELSE ScoreLoopStopsAtUnknown(solved, i + 1,
                                 score + Difficulty(solved[i].Key) * ScoreMultiplier,
                                 Append(names, solved[i]))

RECURSIVE ScoreLoop(_, _, _, _)
\* the loop over solvedChallenges: returns <<score, solvedChallengeNames>>
ScoreLoop(solved, i, score, names) ==
    IF i > Len(solved) THEN <<score, names>>
    ELSE IF solved[i].Key \notin KnownKeys
         THEN ScoreLoop(solved, i + 1, score, names)
         ELSE ScoreLoop(solved, i + 1,
                        score + Difficulty(solved[i].Key) * ScoreMultiplier,
                        Append(names, solved[i]))

\* a variant that reports an instance without parseable progress as not ready
calculateScoreUnreadyOnError(team, d, time) ==
    IF ~d.challenges.valid
    THEN TeamScore(team, 0, 0, <<>>, time, FALSE)
    ELSE LET r == ScoreLoop(d.challenges.list, 1, 0, <<>>)
             b1 == IF d.findIt # "" THEN BonusScore ELSE 0
             b2 == IF d.fixIt # "" THEN BonusScore ELSE 0
         IN  TeamScore(team, r[1] + b1 + b2, 0, r[2], time, d.ready > 0)

calculateScore(team, d, time) ==
    IF ~d.challenges.valid
    THEN TeamScore(team, 0, 0, <<>>, time, d.ready > 0)
    ELSE LET r == ScoreLoop(d.challenges.list, 1, 0, <<>>)
             b1 == IF d.findIt # "" THEN BonusScore ELSE 0
             b2 == IF d.fixIt # "" THEN BonusScore ELSE 0
         IN  TeamScore(team, r[1] + b1 + b2, 0, r[2], time, d.ready > 0)

(***************************************************************************)
(* Ranking                                                                 *)
(***************************************************************************)
RECURSIVE LatestFrom(_, _, _)
LatestFrom(chs, i, maxTime) ==
    IF i > Len(chs) THEN maxTime
    ELSE LatestFrom(chs, i + 1,
                    IF chs[i].SolvedAt > maxTime THEN chs[i].SolvedAt ELSE maxTime)

getLatestChallengeSolve(challenges) == LatestFrom(challenges, 1, 0)

\* string comparison of team names, as Go's < on strings
NameRank(n) == CASE n = "t1" -> 1 [] n = "t2" -> 2 [] n = "t3" -> 3 [] OTHER -> 4

\* a variant of the comparison that forgets the tie-break on the name
LessNoNameTieBreak(a, b) ==
    IF a.Score = b.Score
    THEN getLatestChallengeSolve(a.Challenges) < getLatestChallengeSolve(b.Challenges)
    ELSE a.Score > b.Score

\* the less function handed to sort.Slice
Less(a, b) ==
    IF a.Score = b.Score
    THEN LET iTime == getLatestChallengeSolve(a.Challenges)
             jTime == getLatestChallengeSolve(b.Challenges)
         IN  IF iTime = jTime
             THEN NameRank(a.Name) < NameRank(b.Name)
             ELSE iTime < jTime
    ELSE a.Score > b.Score

\* sort.Slice: a comparison sort of the slice filled in map-iteration order
RECURSIVE InsertBy(_, _, _)
InsertBy(s, x, i) ==
    IF i > Len(s) THEN Append(s, x)
    ELSE IF Less(x, s[i])
         THEN SubSeq(s, 1, i - 1) \o <<x>> \o SubSeq(s, i, Len(s))
         ELSE InsertBy(s, x, i + 1)

RECURSIVE SortFrom(_, _, _)
SortFrom(unsorted, i, acc) ==
    IF i > Len(unsorted) THEN acc
    ELSE SortFrom(unsorted, i + 1, InsertBy(acc, unsorted[i], 1))

sortSlice(s) == SortFrom(s, 1, <<>>)

\* a variant of the position walk that numbers distinct scores 1, 2, 3, ...
RECURSIVE PositionDense(_, _)
PositionDense(s, i) ==
    IF i = 1 THEN 1
    ELSE IF s[i].Score < s[i - 1].Score THEN PositionDense(s, i - 1) + 1
    ELSE PositionDense(s, i - 1)

\* the value of `position` when the walk assigns sortedTeamScores[i].Position
RECURSIVE PositionAt(_, _)
PositionAt(s, i) ==
    IF i = 1 THEN 1
    ELSE IF s[i].Score < s[i - 1].Score THEN i
    ELSE PositionAt(s, i - 1)

\* order: the order in which the map's entries are iterated
sortTeamsByScoreAndCalculatePositions(teamScores, order) ==
    LET filled == [i \in 1..Len(order) |-> teamScores[order[i]]]
        sorted == sortSlice(filled)
    IN  [i \in 1..Len(sorted) |-> [sorted[i] EXCEPT !.Position = PositionAt(sorted, i)]]

\* the ranking, with the map iterated in some fixed order
Rank(teamScores) ==
    sortTeamsByScoreAndCalculatePositions(teamScores,
        CHOOSE o \in PermsOf(DOMAIN teamScores) : TRUE)

(***************************************************************************)
(* CompareChallengeStates (progress-watchdog)                              *)
(***************************************************************************)
HasKey(list, k) == \E i \in DOMAIN list : list[i].Key = k

\* a variant that compares the number of solved challenges only
CompareByCount(currentSolved, lastSolved) ==
    IF Len(lastSolved) > Len(currentSolved) THEN "ApplyCode"
    ELSE IF Len(currentSolved) > Len(lastSolved) THEN "UpdateCache"
    ELSE "NoOp"

RECURSIVE MissingFrom(_, _, _)
\* some entry of a, from index i on, has a key that b lacks
MissingFrom(a, b, i) ==
    IF i > Len(a) THEN FALSE
    ELSE IF ~HasKey(b, a[i].Key) THEN TRUE
    ELSE MissingFrom(a, b, i + 1)

CompareChallengeStates(currentSolved, lastSolved) ==
    IF MissingFrom(lastSolved, currentSolved, 1) THEN "ApplyCode"
    ELSE IF MissingFrom(currentSolved, lastSolved, 1) THEN "UpdateCache"
    ELSE "NoOp"

(***************************************************************************)
(* ChallengeStatuses: sort.Stable orders the entries by SolvedAt           *)
(***************************************************************************)
RECURSIVE InsertByTime(_, _, _)
InsertByTime(s, x, i) ==
    IF i > Len(s) THEN Append(s, x)
    ELSE IF x.SolvedAt < s[i].SolvedAt
         THEN SubSeq(s, 1, i - 1) \o <<x>> \o SubSeq(s, i, Len(s))
         ELSE InsertByTime(s, x, i + 1)

RECURSIVE StableFrom(_, _, _)
StableFrom(unsorted, i, acc) ==
    IF i > Len(unsorted) THEN acc
    ELSE StableFrom(unsorted, i + 1, InsertByTime(acc, unsorted[i], 1))

sortStable(s) == StableFrom(s, 1, <<>>)

(***************************************************************************)
(* The watch on the JuiceShop deployments                                  *)
(***************************************************************************)
WatchSelector == "app.kubernetes.io/name=juice-shop,app.kubernetes.io/part-of=multi-juicer"

Event(type, team, obj) == [type |-> type, team |-> team, obj |-> obj]

NoStream == [open |-> FALSE, selector |-> "", q |-> <<>>]

\* the ADDED events a fresh watch starts with: one per existing deployment
RECURSIVE InitialEvents(_, _)
InitialEvents(d, order) ==
    IF order = <<>> THEN <<>>
    ELSE (IF d[Head(order)].exists
          THEN <<Event("ADDED", Head(order), d[Head(order)])>>
          ELSE <<>>) \o InitialEvents(d, Tail(order))

TeamOrder == <<"t1", "t2">>

\* a change of a deployment is delivered on the open watch
Emit(st, type, team, obj) ==
    IF st.open THEN [st EXCEPT !.q = Append(@, Event(type, team, obj))] ELSE st

NoScore == TeamScore("", 0, 0, <<>>, 0, FALSE)
NoEvent ==
    [type |-> "none", team |-> "", obj |-> NoDeployment, score |-> NoScore,
     noop |-> FALSE]

\* the entry of a team in the cache map, with or without it
MapWith(m, team, score) ==
    [t \in DOMAIN m \cup {team} |-> IF t = team THEN score ELSE m[t]]
MapWithout(m, team) == [t \in DOMAIN m \ {team} |-> m[t]]
EmptyMap == [t \in {} |-> NoScore]

\* the two scores agree in everything calculateScore derives from the deployment
SameScoreContent(a, b) ==
    /\ a.Name = b.Name
    /\ a.Score = b.Score
    /\ a.Challenges = b.Challenges
    /\ a.InstanceReadiness = b.InstanceReadiness

(***************************************************************************)
(* StartingScoringWorker / startScoringWatcher                             *)
(***************************************************************************)
\* where the worker stops for good when the stream closes (a variant)
OnStreamClosedStop == "done"

\* the stream closed: startScoringWatcher returns into the driving loop
OnStreamClosed == "outer"

\* the select of StartingScoringWorker
WorkerSelect ==
    /\ wpc = "outer"
    /\ wpc' = IF cancelled THEN "done" ELSE "open"
    /\ UNCHANGED <<depl, envBudget, stream, wev, currentScores, currentScoresSorted,
                   lastUpdate, mutex, now, cancelled, rd, opens, syncVars, pureVars>>

\* Deployments(ns).Watch(ctx, selector) succeeds
OpenWatch ==
    /\ wpc = "open"
    /\ ~cancelled
    /\ stream' = [open |-> TRUE, selector |-> WatchSelector,
                  q |-> InitialEvents(depl, TeamOrder)]
    /\ opens' = opens + 1
    /\ wpc' = "watching"
    /\ UNCHANGED <<depl, envBudget, wev, currentScores, currentScoresSorted,
                   lastUpdate, mutex, now, cancelled, rd, syncVars, pureVars>>

\* Deployments(ns).Watch fails (the API call fails, or ctx is already cancelled):
\* startScoringWatcher panics
OpenWatchFails ==
    /\ wpc = "open"
    /\ \/ cancelled /\ UNCHANGED envBudget
       \/ envBudget > 0 /\ envBudget' = envBudget - 1
    /\ wpc' = "panic"
    /\ UNCHANGED <<depl, stream, wev, currentScores, currentScoresSorted,
                   lastUpdate, mutex, now, cancelled, rd, opens, syncVars, pureVars>>

\* an event is received: case watch.Added, watch.Modified / watch.Deleted
RecvEvent ==
    /\ wpc = "watching"
    /\ stream.q # <<>>
    /\ LET ev == Head(stream.q) IN
       /\ stream' = [stream EXCEPT !.q = Tail(@)]
       /\ IF ev.type \in {"ADDED", "MODIFIED"}
          THEN LET score == calculateScore(ev.team, ev.obj, now + 1)
                   cached == ev.team \in DOMAIN currentScores
                   skip == cached /\ EqualsIgnoringLastUpdate(currentScores[ev.team], score)
               IN  /\ now' = now + 1
                   /\ wev' = [type |-> ev.type, team |-> ev.team, obj |-> ev.obj,
                              score |-> score,
                              noop |-> cached /\ SameScoreContent(currentScores[ev.team], score)]
                   /\ wpc' = IF skip THEN "watching" ELSE "lock"
          ELSE /\ now' = now
               /\ wev' = [type |-> ev.type, team |-> ev.team, obj |-> ev.obj,
                          score |-> NoScore,
                          noop |-> FALSE]
               /\ wpc' = IF ev.type = "DELETED" THEN "lock" ELSE "watching"
    /\ UNCHANGED <<depl, envBudget, currentScores, currentScoresSorted, lastUpdate,
                   mutex, cancelled, rd, opens, syncVars, pureVars>>

\* the result channel is closed: return (and the deferred watcher.Stop())
RecvClosed ==
    /\ wpc = "watching"
    /\ stream.q = <<>>
    /\ ~stream.open
    /\ wpc' = OnStreamClosed
    /\ UNCHANGED <<depl, envBudget, stream, wev, currentScores, currentScoresSorted,
                   lastUpdate, mutex, now, cancelled, rd, opens, syncVars, pureVars>>

\* case <-ctx.Done(): return, and the deferred watcher.Stop() ends the stream
RecvCancel ==
    /\ wpc = "watching"
    /\ cancelled
    /\ stream' = [stream EXCEPT !.open = FALSE, !.q = <<>>]
    /\ wpc' = "outer"
    /\ UNCHANGED <<depl, envBudget, wev, currentScores, currentScoresSorted,
                   lastUpdate, mutex, now, cancelled, rd, opens, syncVars, pureVars>>

\* s.currentScoresMutex.Lock()
WatcherLock ==
    /\ wpc = "lock"
    /\ mutex = "free"
    /\ mutex' = "watcher"
    /\ wpc' = "wmap"
    /\ UNCHANGED <<depl, envBudget, stream, wev, currentScores, currentScoresSorted,
                   lastUpdate, now, cancelled, rd, opens, syncVars, pureVars>>

\* s.currentScores[score.Name] = score  /  delete(s.currentScores, team)
WriteMap ==
    /\ wpc = "wmap"
    /\ currentScores' = IF wev.type = "DELETED"
                        THEN MapWithout(currentScores, wev.team)
                        ELSE MapWith(currentScores, wev.team, wev.score)
    /\ wpc' = "wsort"
    /\ UNCHANGED <<depl, envBudget, stream, wev, currentScoresSorted, lastUpdate,
                   mutex, now, cancelled, rd, opens, syncVars, pureVars>>

\* s.currentScoresSorted = sortTeamsByScoreAndCalculatePositions(s.currentScores);
\* the slice holds the map's own *TeamScore, so the map's entries get the positions
WriteSorted ==
    /\ wpc = "wsort"
    /\ \E order \in PermsOf(DOMAIN currentScores) :
         LET sorted == sortTeamsByScoreAndCalculatePositions(currentScores, order) IN
         /\ currentScoresSorted' = sorted
         /\ currentScores' = [t \in DOMAIN currentScores |->
                                sorted[CHOOSE i \in DOMAIN sorted : sorted[i].Name = t]]
    /\ wpc' = "wstamp"
    /\ UNCHANGED <<depl, envBudget, stream, wev, lastUpdate, mutex, now, cancelled,
                   rd, opens, syncVars, pureVars>>

\* s.lastUpdate = time.Now()
WriteStamp ==
    /\ wpc = "wstamp"
    /\ now' = now + 1
    /\ lastUpdate' = now + 1
    /\ wpc' = "unlock"
    /\ UNCHANGED <<depl, envBudget, stream, wev, currentScores, currentScoresSorted,
                   mutex, cancelled, rd, opens, syncVars, pureVars>>

\* s.currentScoresMutex.Unlock()
WatcherUnlock ==
    /\ wpc = "unlock"
    /\ mutex' = "free"
    /\ wpc' = "watching"
    /\ UNCHANGED <<depl, envBudget, stream, wev, currentScores, currentScoresSorted,
                   lastUpdate, now, cancelled, rd, opens, syncVars, pureVars>>

WatcherStep ==
    \/ WorkerSelect \/ OpenWatch \/ OpenWatchFails \/ RecvEvent \/ RecvClosed
    \/ RecvCancel \/ WatcherLock \/ WriteMap \/ WriteSorted \/ WriteStamp
    \/ WatcherUnlock

(***************************************************************************)
(* CalculateAndCacheScoreBoard                                             *)
(***************************************************************************)
\* the map after the loop over juiceShops.Items: every listed deployment's score
\* is written, an entry of a team that is not listed stays
Recalculated(map, d, time) ==
    [t \in DOMAIN map \cup {u \in Teams : d[u].exists} |->
        IF d[t].exists THEN calculateScore(t, d[t], time) ELSE map[t]]

\* one call, by the program that embeds the service: getDeployments fails and the
\* error is returned, or the whole critical section runs (Lock, the loop, the
\* sort, Unlock); s.lastUpdate is not assigned
CalculateAndCacheScoreBoard ==
    /\ envBudget > 0
    /\ envBudget' = envBudget - 1
    /\ \E failed \in BOOLEAN :
         IF failed
         THEN UNCHANGED <<currentScores, currentScoresSorted, now>>
         ELSE /\ mutex = "free"
              /\ now' = now + 1
              /\ \E order \in PermsOf(DOMAIN Recalculated(currentScores, depl, now + 1)) :
                   LET sorted == sortTeamsByScoreAndCalculatePositions(
                                     Recalculated(currentScores, depl, now + 1), order)
                   IN  /\ currentScoresSorted' = sorted
                       /\ currentScores' =
                            [t \in DOMAIN Recalculated(currentScores, depl, now + 1) |->
                               sorted[CHOOSE i \in DOMAIN sorted : sorted[i].Name = t]]
    /\ UNCHANGED <<depl, stream, wpc, wev, lastUpdate, mutex, cancelled, rd, opens,
                   syncVars, pureVars>>

(***************************************************************************)
(* WaitForUpdatesNewerThan                                                 *)
(***************************************************************************)
\* a variant with the operands of the comparison swapped
AfterReversed(a, b) == b > a

\* time.Time.After
After(a, b) == a > b

\* kind: "board" is WaitForUpdatesNewerThan, "team" is WaitForTeamUpdatesNewerThan;
\* why: what ended the call ("update", "timeout", "cancel")
NoRead ==
    [pc |-> "idle", kind |-> "board", team |-> "", watermark |-> 0, ticks |-> 0,
     got |-> FALSE, result |-> <<>>, score |-> NoScore, why |-> "",
     seenMap |-> EmptyMap, seenStamp |-> 0]

\* s.lastUpdate.After(lastSeenUpdate), or for a team: the team is in the map and
\* score.LastUpdate.After(lastSeenUpdate)
Exceeded(r) ==
    IF r.kind = "board" THEN After(lastUpdate, r.watermark)
    ELSE /\ r.team \in DOMAIN currentScores
         /\ After(currentScores[r.team].LastUpdate, r.watermark)

\* return s.currentScoresSorted (or the team's score); seenMap and seenStamp are
\* what GetScores and s.lastUpdate give the caller of the board at that instant
\* (none of them takes the mutex)
Returned(r) ==
    [r EXCEPT !.pc = "done", !.got = TRUE, !.why = "update",
              !.result = IF r.kind = "board" THEN currentScoresSorted ELSE <<>>,
              !.score = IF r.kind = "team" THEN currentScores[r.team] ELSE NoScore,
              !.seenMap = IF r.kind = "board" THEN currentScores ELSE EmptyMap,
              !.seenStamp = IF r.kind = "board" THEN lastUpdate ELSE 0]

\* where the call is after the ceiling timer fired, with a variant that goes on
\* waiting
OnTimeoutKeepWaiting == "waiting"
OnTimeout == "done"

ReadCall ==
    /\ rd.pc = "idle"
    /\ \E wm \in {0, lastUpdate - 1, lastUpdate}, kind \in {"board", "team"} :
         LET r == [NoRead EXCEPT !.watermark = wm, !.kind = kind,
                                 !.team = IF kind = "team" THEN "t1" ELSE ""] IN
         rd' = IF Exceeded(r) THEN Returned(r) ELSE [r EXCEPT !.pc = "waiting"]
    /\ UNCHANGED <<depl, envBudget, stream, wpc, wev, currentScores,
                   currentScoresSorted, lastUpdate, mutex, now, cancelled, opens,
                   syncVars, pureVars>>

\* case <-ticker.C
ReadTick ==
    /\ rd.pc = "waiting"
    /\ rd.ticks < MaxTicks
    /\ LET r == [rd EXCEPT !.ticks = @ + 1] IN
       rd' = IF Exceeded(r) THEN Returned(r) ELSE r
    /\ UNCHANGED <<depl, envBudget, stream, wpc, wev, currentScores,
                   currentScoresSorted, lastUpdate, mutex, now, cancelled, opens,
                   syncVars, pureVars>>

\* case <-timeout.C
ReadTimeout ==
    /\ rd.pc = "waiting"
    /\ rd' = [rd EXCEPT !.pc = OnTimeout,
                        !.why = IF OnTimeout = "done" THEN "timeout" ELSE @]
    /\ UNCHANGED <<depl, envBudget, stream, wpc, wev, currentScores,
                   currentScoresSorted, lastUpdate, mutex, now, cancelled, opens,
                   syncVars, pureVars>>

\* case <-ctx.Done()
ReadCtxDone ==
    /\ rd.pc = "waiting"
    /\ cancelled
    /\ rd' = [rd EXCEPT !.pc = "done", !.why = "cancel"]
    /\ UNCHANGED <<depl, envBudget, stream, wpc, wev, currentScores,
                   currentScoresSorted, lastUpdate, mutex, now, cancelled, opens,
                   syncVars, pureVars>>

\* the caller takes the result; a later request calls again
ReadReturn ==
    /\ rd.pc = "done"
    /\ rd' = NoRead
    /\ UNCHANGED <<depl, envBudget, stream, wpc, wev, currentScores,
                   currentScoresSorted, lastUpdate, mutex, now, cancelled, opens,
                   syncVars, pureVars>>

ReaderStep == ReadCall \/ ReadTick \/ ReadTimeout \/ ReadCtxDone \/ ReadReturn

(***************************************************************************)
(* The cluster seen by the balancer: deployments change, the stream closes *)
(***************************************************************************)
FreshDeployment == Deployment(Anno(FALSE, <<>>), "", "", 0)

\* the next solved challenge written to the annotation
NextSolve(list) ==
    IF ~HasKey(list, "A") THEN sortStable(Append(list, Ch("A", 1)))
    ELSE sortStable(Append(list, Ch("B", 2)))

ClusterChange(t, type, d) ==
    /\ envBudget > 0
    /\ envBudget' = envBudget - 1
    /\ depl' = [depl EXCEPT ![t] = IF type = "DELETED" THEN NoDeployment ELSE d]
    /\ stream' = Emit(stream, type, t, d)

ClusterCreates ==
    /\ \E t \in Teams : ~depl[t].exists /\ ClusterChange(t, "ADDED", FreshDeployment)
    /\ UNCHANGED <<wpc, wev, currentScores, currentScoresSorted, lastUpdate, mutex,
                   now, cancelled, rd, opens, syncVars, pureVars>>

\* an update that leaves the three annotations and the readiness as they are
\* (the balancer's lastRequest annotation)
ClusterTouches ==
    /\ \E t \in Teams : depl[t].exists /\ ClusterChange(t, "MODIFIED", depl[t])
    /\ UNCHANGED <<wpc, wev, currentScores, currentScoresSorted, lastUpdate, mutex,
                   now, cancelled, rd, opens, syncVars, pureVars>>

ClusterPersists ==
    /\ \E t \in Teams :
         /\ depl[t].exists
         /\ Len(depl[t].challenges.list) < 2
         /\ ClusterChange(t, "MODIFIED",
               [depl[t] EXCEPT !.challenges = Anno(TRUE, NextSolve(@.list))])
    /\ UNCHANGED <<wpc, wev, currentScores, currentScoresSorted, lastUpdate, mutex,
                   now, cancelled, rd, opens, syncVars, pureVars>>

ClusterReadiness ==
    /\ \E t \in Teams :
         /\ depl[t].exists
         /\ ClusterChange(t, "MODIFIED", [depl[t] EXCEPT !.ready = 1 - @])
    /\ UNCHANGED <<wpc, wev, currentScores, currentScoresSorted, lastUpdate, mutex,
                   now, cancelled, rd, opens, syncVars, pureVars>>

ClusterDeletes ==
    /\ \E t \in Teams : depl[t].exists /\ ClusterChange(t, "DELETED", depl[t])
    /\ UNCHANGED <<wpc, wev, currentScores, currentScoresSorted, lastUpdate, mutex,
                   now, cancelled, rd, opens, syncVars, pureVars>>

\* the server ends the watch (timeout, connection drop); undelivered events are lost
StreamCloses ==
    /\ stream.open
    /\ envBudget > 0
    /\ envBudget' = envBudget - 1
    /\ stream' = [stream EXCEPT !.open = FALSE, !.q = <<>>]
    /\ UNCHANGED <<depl, wpc, wev, currentScores, currentScoresSorted, lastUpdate,
                   mutex, now, cancelled, rd, opens, syncVars, pureVars>>

Cancel ==
    /\ ~cancelled
    /\ cancelled' = TRUE
    /\ UNCHANGED <<depl, envBudget, stream, wpc, wev, currentScores,
                   currentScoresSorted, lastUpdate, mutex, now, rd, opens, syncVars, pureVars>>

ClusterStep ==
    \/ ClusterCreates \/ ClusterTouches \/ ClusterPersists \/ ClusterReadiness
    \/ ClusterDeletes \/ StreamCloses

(***************************************************************************)
(* progress-watchdog: data                                                 *)
(***************************************************************************)
WorkerIds == {"w1", "w2"}
HandlerIds == {"h1"}
SyncKeys == {"A", "B"}
KeyOrder == <<"A", "B">>

\* challengeIdLookup: the 1-based index in challenges.json; Go's map gives 0 for
\* a key that is not in it
challengeIdLookup(k) == CASE k = "A" -> 1 [] k = "B" -> 2 [] k = "C" -> 3 [] OTHER -> 0

\* the id list handed to the encoder; the code is this list, encoded reversibly
GenerateContinueCode(challenges) ==
    [i \in 1..Len(challenges) |-> challengeIdLookup(challenges[i].Key)]

\* the instant the instance reports for the solve of a challenge
SolveTime(k) == CASE k = "A" -> 1 [] k = "B" -> 2 [] OTHER -> 3

\* ChallengeProgressWithCodes
Progress(challenges, findIt, fixIt) ==
    [challenges |-> challenges, findIt |-> findIt, fixIt |-> fixIt]
NoProgress == Progress(<<>>, "", "")

\* a Juice Shop instance: solved[k] is 0 or the instant k was solved
Instance(solved, findIt, fixIt) == [solved |-> solved, findIt |-> findIt, fixIt |-> fixIt]
FreshInstance == Instance([k \in SyncKeys |-> 0], "", "")

Job(team, last) == [Team |-> team, LastChallengeProgress |-> last]

\* fetchErr: the fetch of the live progress failed in the job that just ended;
\* getErr: the Get of the deployment failed in the running job (err != nil at 242)
IdleWorker ==
    [pc |-> "idle", team |-> "", last |-> <<>>, lastFindIt |-> "", lastFixIt |-> "",
     cur |-> NoProgress, sent |-> {}, fetchErr |-> FALSE, getErr |-> FALSE]

\* a worker goroutine that the run does not start
OffWorker == [IdleWorker EXCEPT !.pc = "off"]

IdleHandler ==
    [pc |-> "idle", team |-> "", challenge |-> "", issuedOn |-> 0,
     d |-> NoDeployment, cur |-> NoProgress, status |-> 0, persisted |-> FALSE]

SyncIdle ==
    /\ live = [t \in Teams |-> FreshInstance]
    /\ spc = "off"
    /\ sjobs = <<>>
    /\ wk = [w \in WorkerIds |-> IdleWorker]
    /\ hk = [h \in HandlerIds |-> IdleHandler]

(***************************************************************************)
(* ScoreSpec: the scoring service, its readers and the cluster             *)
(***************************************************************************)
PureIdle ==
    /\ fn = "none"
    /\ rankIn = EmptyMap
    /\ rankOrder = <<>>
    /\ rankOut = <<>>
    /\ cmpIn = [cur |-> <<>>, last |-> <<>>]
    /\ cmpOut = ""
    /\ arg = <<>>
    /\ ret = <<>>

\* NewScoringService: an empty map, its ranking, lastUpdate = time.Now()
ScoreStart(budget) ==
    /\ depl = [t \in Teams |-> IF t = "t1"
                               THEN Deployment(Anno(TRUE, <<>>), "", "", 1)
                               ELSE NoDeployment]
    /\ envBudget = budget
    /\ stream = NoStream
    /\ wpc = "outer"
    /\ wev = NoEvent
    /\ currentScores = EmptyMap
    /\ currentScoresSorted = sortTeamsByScoreAndCalculatePositions(EmptyMap, <<>>)
    /\ lastUpdate = 1
    /\ mutex = "free"
    /\ now = 1
    /\ cancelled = FALSE
    /\ rd = NoRead
    /\ opens = 0
    /\ SyncIdle
    /\ PureIdle

ScoreInit == ScoreStart(MaxEnv)

ScoreNext == WatcherStep \/ ReaderStep \/ ClusterStep \/ Cancel

ScoreSpec == ScoreInit /\ [][ScoreNext]_vars

\* the watch loop and the cluster alone: the readers write nothing the loop reads
WatchNext == WatcherStep \/ ClusterStep \/ Cancel

\* the watch loop is a goroutine of its own: it is scheduled as long as it can step
ScoreFairSpec == ScoreInit /\ [][WatchNext]_vars /\ WF_vars(WatcherStep)

\* the long-poll calls beside the watch loop; the ceiling timer of a waiting call
\* fires after 25 seconds
ReadFairSpec ==
    ScoreStart(MaxReadEnv) /\ [][ScoreNext]_vars /\ WF_vars(ReadTimeout)

\* the watch loop, the cluster and callers of CalculateAndCacheScoreBoard
CalcNext == WatchNext \/ CalculateAndCacheScoreBoard

CalcSpec == ScoreStart(MaxEnv) /\ [][CalcNext]_vars

(***************************************************************************)
(* PureSpec: the pure functions applied to inputs drawn from bounded sets  *)
(***************************************************************************)
RankLists ==
    { <<>>, <<Ch("A", 1)>>, <<Ch("B", 1)>>, <<Ch("A", 2)>>,
      <<Ch("A", 1), Ch("B", 2)>>, <<Ch("C", 1)>>, <<Ch("C", 2)>> }

\* the scores the calculator can hand to the ranking for one team
RankScores(t) ==
    { calculateScore(t, Deployment(Anno(TRUE, l), f, "", 1), 0) :
        l \in RankLists, f \in {"", "code"} }

RankMaps ==
    UNION { { m \in [S -> UNION {RankScores(t) : t \in S}] :
                \A t \in S : m[t].Name = t } : S \in SUBSET RankTeams }

\* the solved-challenge lists the comparator is given
CompareLists ==
    UNION { {[i \in 1..Len(p) |-> Ch(p[i], i)] : p \in PermsOf(S)} :
              S \in SUBSET KnownKeys }

RankInit ==
    /\ fn = "rank"
    /\ rankIn \in RankMaps
    /\ rankOrder = <<>>
    /\ rankOut = <<>>
    /\ cmpIn = [cur |-> <<>>, last |-> <<>>]
    /\ cmpOut = ""
    /\ arg = <<>>
    /\ ret = <<>>

CompareInit ==
    /\ fn = "compare"
    /\ rankIn = EmptyMap
    /\ rankOrder = <<>>
    /\ rankOut = <<>>
    /\ cmpIn \in [cur : CompareLists, last : CompareLists]
    /\ cmpOut = ""
    /\ arg = <<>>
    /\ ret = <<>>

\* the deployments handed to calculateScore: lists of up to three solved entries
\* over two catalog keys and one key that is not in the catalog
ScoreKeys == {"A", "C", "X"}

ScoreEntryLists ==
    UNION { [1..n -> ScoreKeys] : n \in 0..3 }

ScoreArgs ==
    { Deployment(Anno(v, [i \in DOMAIN ks |-> Ch(ks[i], i)]), f, x, r) :
        v \in BOOLEAN, ks \in ScoreEntryLists,
        f \in {"", "f1"}, x \in {"", "x1"}, r \in {0, 1, 2} }

\* the pairs handed to EqualsIgnoringLastUpdate
EqualsChallenges ==
    { <<>>, <<Ch("A", 1)>>, <<Ch("A", 2)>>, <<Ch("B", 1)>>,
      <<Ch("A", 1), Ch("B", 2)>>, <<Ch("B", 1), Ch("A", 2)>> }

EqualsScores ==
    { TeamScore(n, sc, pos, chs, upd, rdy) :
        n \in {"t1", "t2"}, sc \in {0, 10}, pos \in {0, 1},
        chs \in EqualsChallenges, upd \in {1, 2}, rdy \in BOOLEAN }

\* the progress lists handed to GenerateContinueCode
EncodeArgs ==
    { [i \in DOMAIN ks |-> Ch(ks[i], i)] :
        ks \in UNION { [1..n -> {"A", "B", "C", "X"}] : n \in 0..3 } }

ArgInit ==
    /\ rankIn = EmptyMap
    /\ rankOrder = <<>>
    /\ rankOut = <<>>
    /\ cmpIn = [cur |-> <<>>, last |-> <<>>]
    /\ cmpOut = ""
    /\ ret = <<>>
    /\ \/ fn = "score" /\ arg \in ScoreArgs
       \/ fn = "equals" /\ arg \in (EqualsScores \X EqualsScores)
       \/ fn = "encode" /\ arg \in EncodeArgs

ScoreIdle ==
    /\ stream = NoStream
    /\ wpc = "outer"
    /\ wev = NoEvent
    /\ currentScores = EmptyMap
    /\ currentScoresSorted = <<>>
    /\ lastUpdate = 1
    /\ mutex = "free"
    /\ now = 1
    /\ cancelled = FALSE
    /\ rd = NoRead
    /\ opens = 0

PureInit ==
    /\ depl = [t \in Teams |-> NoDeployment]
    /\ envBudget = 0
    /\ ScoreIdle
    /\ SyncIdle
    /\ (RankInit \/ CompareInit \/ ArgInit)

\* sortTeamsByScoreAndCalculatePositions(rankIn), the map iterated in any order
ApplyRank ==
    /\ fn = "rank"
    /\ \E order \in PermsOf(DOMAIN rankIn) :
         /\ rankOrder' = order
         /\ rankOut' = sortTeamsByScoreAndCalculatePositions(rankIn, order)
    /\ fn' = "ranked"
    /\ UNCHANGED <<depl, envBudget, scoreVars, syncVars, rankIn, cmpIn, cmpOut, arg, ret>>

\* CompareChallengeStates(cmpIn.cur, cmpIn.last)
ApplyCompare ==
    /\ fn = "compare"
    /\ cmpOut' = CompareChallengeStates(cmpIn.cur, cmpIn.last)
    /\ fn' = "compared"
    /\ UNCHANGED <<depl, envBudget, scoreVars, syncVars, rankIn, rankOrder, rankOut, cmpIn,
                   arg, ret>>

\* calculateScore(bundle, arg, cachedChallengesMap) for team t1
ApplyScore ==
    /\ fn = "score"
    /\ ret' = calculateScore("t1", arg, 0)
    /\ fn' = "scored"
    /\ UNCHANGED <<depl, envBudget, scoreVars, syncVars, rankIn, rankOrder, rankOut,
                   cmpIn, cmpOut, arg>>

\* arg[1].EqualsIgnoringLastUpdate(arg[2])
ApplyEquals ==
    /\ fn = "equals"
    /\ ret' = EqualsIgnoringLastUpdate(arg[1], arg[2])
    /\ fn' = "equalled"
    /\ UNCHANGED <<depl, envBudget, scoreVars, syncVars, rankIn, rankOrder, rankOut,
                   cmpIn, cmpOut, arg>>

\* GenerateContinueCode(arg): the id list that goes into hashIDClient.Encode
ApplyEncode ==
    /\ fn = "encode"
    /\ ret' = GenerateContinueCode(arg)
    /\ fn' = "encoded"
    /\ UNCHANGED <<depl, envBudget, scoreVars, syncVars, rankIn, rankOrder, rankOut,
                   cmpIn, cmpOut, arg>>

PureNext == ApplyRank \/ ApplyCompare \/ ApplyScore \/ ApplyEquals \/ ApplyEncode

PureSpec == PureInit /\ [][PureNext]_vars

(***************************************************************************)
(* Claims on the pure functions                                            *)
(***************************************************************************)

\* C2: the comparator classifies by the membership of the solved keys: ApplyCode
\* whenever last-known has a key that live lacks; UpdateCache when live has a key
\* that last-known lacks and last-known has none that live lacks; NoOp only when
\* the two key sets are equal, whatever the two lengths.
C2_ClassifiesByKeySet ==
    fn = "compared" =>
      LET liveKeys == KeysOf(cmpIn.cur)
          lastKeys == KeysOf(cmpIn.last)
      IN  /\ (lastKeys \ liveKeys # {}) => cmpOut = "ApplyCode"
          /\ (lastKeys \ liveKeys = {} /\ liveKeys \ lastKeys # {})
               => cmpOut = "UpdateCache"
          /\ (cmpOut = "NoOp") <=> (liveKeys = lastKeys)

C2_Witness ==
    /\ fn = "compared"
    /\ Len(cmpIn.cur) = Len(cmpIn.last)
    /\ KeysOf(cmpIn.cur) # KeysOf(cmpIn.last)
    /\ cmpOut = "ApplyCode"

\* C5: the ranking assigns competition positions: the first team has position 1
\* and every team's position is 1 plus the number of teams with a strictly
\* higher score, so equal positions go with equal scores and only with them.
C5_CompetitionPositions ==
    fn = "ranked" =>
      /\ Len(rankOut) = Cardinality(DOMAIN rankIn)
      /\ rankOut # <<>> => rankOut[1].Position = 1
      /\ \A i \in DOMAIN rankOut :
           rankOut[i].Position =
             1 + Cardinality({j \in DOMAIN rankOut : rankOut[j].Score > rankOut[i].Score})
      /\ \A i, j \in DOMAIN rankOut :
           /\ (i < j) => rankOut[i].Position <= rankOut[j].Position
           /\ (rankOut[i].Position = rankOut[j].Position)
                <=> (rankOut[i].Score = rankOut[j].Score)

C5_Witness ==
    /\ fn = "ranked"
    /\ Len(rankOut) = 3
    /\ rankOut[1].Position = 1
    /\ rankOut[2].Position = 1
    /\ rankOut[3].Position = 3

\* the order of the ranking: score descending, then latest solve ascending, then name
Precedes(a, b) ==
    \/ a.Score > b.Score
    \/ /\ a.Score = b.Score
       /\ getLatestChallengeSolve(a.Challenges) < getLatestChallengeSolve(b.Challenges)
    \/ /\ a.Score = b.Score
       /\ getLatestChallengeSolve(a.Challenges) = getLatestChallengeSolve(b.Challenges)
       /\ NameRank(a.Name) < NameRank(b.Name)

\* C6: the ranked sequence holds every team of the map once, ordered by higher
\* score, then earlier latest solve, then smaller name, and it is the same
\* sequence for every iteration order of the map.
C6_DeterministicTotalOrder ==
    fn = "ranked" =>
      /\ {rankOut[i].Name : i \in DOMAIN rankOut} = DOMAIN rankIn
      /\ \A i, j \in DOMAIN rankOut : (i < j) => Precedes(rankOut[i], rankOut[j])
      /\ \A order \in PermsOf(DOMAIN rankIn) :
           sortTeamsByScoreAndCalculatePositions(rankIn, order) = rankOut

C6_Witness ==
    /\ fn = "ranked"
    /\ Len(rankOut) = 3
    /\ rankOrder = <<"t3", "t2", "t1">>
    /\ rankOut[1].Score = rankOut[2].Score
    /\ getLatestChallengeSolve(rankOut[1].Challenges)
         = getLatestChallengeSolve(rankOut[2].Challenges)
    /\ rankOut[1].Name = "t1"
    /\ rankOut[2].Name = "t2"
    /\ rankOut[3].Score = rankOut[2].Score
    /\ getLatestChallengeSolve(rankOut[3].Challenges)
         > getLatestChallengeSolve(rankOut[2].Challenges)

(***************************************************************************)
(* Claims on the score cache                                               *)
(***************************************************************************)
\* the ranked copy is the ranking of the map and the stamp is later than the
\* computation of every entry of the map
Snapshot(map, sorted, stamp) ==
    /\ sorted = Rank(map)
    /\ \A t \in DOMAIN map : map[t].LastUpdate < stamp

\* outside the critical section the three fields of the cache agree
QuiescentCacheIsSnapshot ==
    mutex = "free" => Snapshot(currentScores, currentScoresSorted, lastUpdate)

\* C3: whatever a reader sees while the watch loop runs, the ranked copy is the
\* ranking of the map it sees and the last-update time belongs to that update.
C3_ReaderSeesSnapshot ==
    (rd.pc = "done" /\ rd.got /\ rd.kind = "board")
      => Snapshot(rd.seenMap, rd.result, rd.seenStamp)

\* C4: handling an add/modify event for a cached team whose recomputed score
\* matches the cached entry in everything but the update timestamp changes
\* neither the map, nor the ranked copy, nor the last-update time.
C4_NoOpRefreshLeavesCache ==
    [][wev.noop => UNCHANGED <<currentScores, currentScoresSorted, lastUpdate>>]_vars

C10_ImmediateReturn ==
    [][(rd.pc = "idle" /\ rd'.pc # "idle" /\ rd'.kind = "board"
        /\ rd'.watermark < lastUpdate)
         => (rd'.pc = "done" /\ rd'.got /\ rd'.ticks = 0
             /\ rd'.result = currentScoresSorted)]_vars

C10_Witness ==
    /\ rd.pc = "done"
    /\ rd.kind = "board"
    /\ rd.got
    /\ rd.ticks = 0
    /\ rd.watermark > 0
    /\ Len(rd.result) = 2

(***************************************************************************)
(* progress-watchdog: the instance API and the persisted annotations       *)
(***************************************************************************)
\* json.Unmarshal of the challenges annotation into a nil / empty slice
Unmarshal(a) == IF a.valid THEN a.list ELSE <<>>

\* GET /api/challenges: the solved challenges, projected and stably sorted
RECURSIVE SolvedFrom(_, _)
SolvedFrom(solved, order) ==
    IF order = <<>> THEN <<>>
    ELSE (IF solved[Head(order)] > 0
          THEN <<Ch(Head(order), solved[Head(order)])>>
          ELSE <<>>) \o SolvedFrom(solved, Tail(order))

getCurrentChallengeStatuses(inst) == sortStable(SolvedFrom(inst.solved, KeyOrder))

\* the outcome of the three requests; fail \subseteq {"status", "find-it", "fix-it"}
getCurrentChallengeProgress(inst, fail) ==
    IF "status" \in fail
    THEN [err |-> TRUE, p |-> NoProgress]
    ELSE [err |-> FALSE,
          p |-> Progress(getCurrentChallengeStatuses(inst),
                         IF "find-it" \in fail THEN "" ELSE inst.findIt,
                         IF "fix-it" \in fail THEN "" ELSE inst.fixIt)]

\* PUT /rest/continue-code/apply/<code> on the instance: the challenges whose id
\* the code holds become solved
ApplyMainCode(inst, ids) ==
    [inst EXCEPT !.solved =
        [k \in SyncKeys |->
            IF inst.solved[k] = 0 /\ challengeIdLookup(k) \in Range(ids)
            THEN SolveTime(k) ELSE inst.solved[k]]]

\* PUT /rest/continue-code/<category>/apply/<code> on the instance
ApplyBonusCode(inst, cat, code) ==
    IF cat = "find-it" THEN [inst EXCEPT !.findIt = code]
    ELSE [inst EXCEPT !.fixIt = code]

\* PersistProgress: the three annotations of the team's deployment are written
PersistProgress(d, team, challenges, findIt, fixIt) ==
    IF d[team].exists
    THEN [d EXCEPT ![team] = [@ EXCEPT !.challenges = Anno(TRUE, challenges),
                                       !.findIt = findIt, !.fixIt = fixIt]]
    ELSE d

EmitPersist(st, d, team) ==
    IF d[team].exists THEN Emit(st, "MODIFIED", team, d[team]) ELSE st

\* at most one of the three requests of a fetch fails
FailChoices == {{}, {"status"}, {"find-it"}, {"fix-it"}}

\* an environment failure spends one unit of the budget
Spend(failed) ==
    IF failed THEN envBudget > 0 /\ envBudget' = envBudget - 1
    ELSE UNCHANGED envBudget

(***************************************************************************)
(* createProgressUpdateJobs                                                *)
(***************************************************************************)
\* a variant of the loop that does not skip the instances that are not ready
RECURSIVE JobsOfAll(_, _)
JobsOfAll(d, order) ==
    IF order = <<>> THEN <<>>
    ELSE (IF d[Head(order)].exists
          THEN <<Job(Head(order), Unmarshal(d[Head(order)].challenges))>>
          ELSE <<>>) \o JobsOfAll(d, Tail(order))

\* the loop over juiceShops.Items: one job per instance with ReadyReplicas = 1
RECURSIVE JobsOf(_, _)
JobsOf(d, order) ==
    IF order = <<>> THEN <<>>
    ELSE (IF d[Head(order)].exists /\ d[Head(order)].ready = 1
          THEN <<Job(Head(order), Unmarshal(d[Head(order)].challenges))>>
          ELSE <<>>) \o JobsOf(d, Tail(order))

SchedulerLists ==
    /\ spc = "list"
    /\ sjobs' = JobsOf(depl, TeamOrder)
    /\ spc' = IF sjobs' = <<>> THEN "sleep" ELSE "send"
    /\ UNCHANGED <<depl, envBudget, scoreVars, live, wk, hk, pureVars>>

\* Deployments(namespace).List fails: panic(err.Error())
SchedulerListFails ==
    /\ spc = "list"
    /\ Spend(TRUE)
    /\ spc' = "panic"
    /\ UNCHANGED <<depl, scoreVars, live, sjobs, wk, hk, pureVars>>

\* a variant in which the send completes whether or not the worker is receiving
CanReceiveWhileBusy(w) == wk[w].pc # "off"

\* the worker is blocked in `for job := range progressUpdateJobs`
CanReceive(w) == wk[w].pc = "idle"

\* progressUpdateJobs <- job, received by an idle worker (the channel is unbuffered)
SchedulerSends ==
    /\ spc = "send"
    /\ \E w \in WorkerIds :
         /\ CanReceive(w)
         /\ wk' = [wk EXCEPT ![w] = [IdleWorker EXCEPT
                      !.pc = "get",
                      !.team = Head(sjobs).Team,
                      !.last = Head(sjobs).LastChallengeProgress]]
    /\ sjobs' = Tail(sjobs)
    /\ spc' = IF Tail(sjobs) = <<>> THEN "sleep" ELSE "send"
    /\ UNCHANGED <<depl, envBudget, scoreVars, live, hk, pureVars>>

\* time.Sleep(60 * time.Second) is over
SchedulerWakes ==
    /\ spc = "sleep"
    /\ spc' = "list"
    /\ UNCHANGED <<depl, envBudget, scoreVars, live, sjobs, wk, hk, pureVars>>

SchedulerStep == SchedulerLists \/ SchedulerListFails \/ SchedulerSends \/ SchedulerWakes

(***************************************************************************)
(* workOnProgressUpdates                                                   *)
(***************************************************************************)
\* a variant of the switch in which the UpdateCache case applies the code too
AfterCompareFallthrough(state, cur, lastFindIt, lastFixIt) ==
    IF state \in {"ApplyCode", "UpdateCache"} THEN "applyMain"
    ELSE IF cur.findIt # lastFindIt \/ cur.fixIt # lastFixIt THEN "persist"
    ELSE "idle"

\* the switch on CompareChallengeStates: where the worker goes next
AfterCompare(state, cur, lastFindIt, lastFixIt) ==
    CASE state = "ApplyCode" -> "applyMain"
      [] state = "UpdateCache" -> "persist"
      [] OTHER -> IF cur.findIt # lastFindIt \/ cur.fixIt # lastFixIt
                  THEN "persist" ELSE "idle"

\* Deployments(ns).Get: the persisted FindIt and FixIt codes, "" when it fails
WorkerGets(w) ==
    /\ wk[w].pc = "get"
    /\ \E failed \in BOOLEAN :
         /\ Spend(failed)
         /\ wk' = [wk EXCEPT ![w] = [@ EXCEPT
                      !.pc = "fetch",
                      !.getErr = failed,
                      !.lastFindIt = IF failed THEN "" ELSE depl[wk[w].team].findIt,
                      !.lastFixIt = IF failed THEN "" ELSE depl[wk[w].team].fixIt]]
    /\ UNCHANGED <<depl, scoreVars, live, spc, sjobs, hk, pureVars>>

\* a variant that goes on with the empty progress when the fetch failed
NeverDrop(err) == FALSE

\* if err != nil { continue }
DropOnError(err) == err

\* getCurrentChallengeProgress, then the switch on CompareChallengeStates
WorkerFetches(w) ==
    /\ wk[w].pc = "fetch"
    /\ \E fail \in FailChoices :
         LET r == getCurrentChallengeProgress(live[wk[w].team], fail)
             next == AfterCompare(CompareChallengeStates(r.p.challenges, wk[w].last),
                                  r.p, wk[w].lastFindIt, wk[w].lastFixIt)
         IN  /\ Spend(fail # {})
             /\ wk' = [wk EXCEPT ![w] =
                         IF DropOnError(r.err) \/ next = "idle"
                         THEN [IdleWorker EXCEPT !.fetchErr = r.err]
                         ELSE [@ EXCEPT !.pc = next, !.cur = r.p, !.fetchErr = r.err]]
    /\ UNCHANGED <<depl, scoreVars, live, spc, sjobs, hk, pureVars>>

\* applyChallengeProgress(team, lastChallengeProgress)
WorkerAppliesMain(w) ==
    /\ wk[w].pc = "applyMain"
    /\ \E failed \in BOOLEAN :
         /\ Spend(failed)
         /\ live' = IF failed THEN live
                    ELSE [live EXCEPT ![wk[w].team] =
                            ApplyMainCode(@, GenerateContinueCode(wk[w].last))]
    /\ wk' = [wk EXCEPT ![w] = [@ EXCEPT !.pc = "applyFindIt",
                                         !.sent = @ \cup {"main"}]]
    /\ UNCHANGED <<depl, scoreVars, spc, sjobs, hk, pureVars>>

\* if lastFindItCode != "" { applyCode(team, lastFindItCode, "find-it") }
WorkerAppliesFindIt(w) ==
    /\ wk[w].pc = "applyFindIt"
    /\ IF wk[w].lastFindIt = ""
       THEN /\ wk' = [wk EXCEPT ![w] = [@ EXCEPT !.pc = "applyFixIt"]]
            /\ UNCHANGED <<live, envBudget>>
       ELSE /\ \E failed \in BOOLEAN :
                 /\ Spend(failed)
                 /\ live' = IF failed THEN live
                            ELSE [live EXCEPT ![wk[w].team] =
                                    ApplyBonusCode(@, "find-it", wk[w].lastFindIt)]
            /\ wk' = [wk EXCEPT ![w] = [@ EXCEPT !.pc = "applyFixIt",
                                                 !.sent = @ \cup {"find-it"}]]
    /\ UNCHANGED <<depl, scoreVars, spc, sjobs, hk, pureVars>>

\* if lastFixItCode != "" { applyCode(team, lastFixItCode, "fix-it") }
WorkerAppliesFixIt(w) ==
    /\ wk[w].pc = "applyFixIt"
    /\ IF wk[w].lastFixIt = ""
       THEN /\ wk' = [wk EXCEPT ![w] = [@ EXCEPT !.pc = "refetch"]]
            /\ UNCHANGED <<live, envBudget>>
       ELSE /\ \E failed \in BOOLEAN :
                 /\ Spend(failed)
                 /\ live' = IF failed THEN live
                            ELSE [live EXCEPT ![wk[w].team] =
                                    ApplyBonusCode(@, "fix-it", wk[w].lastFixIt)]
            /\ wk' = [wk EXCEPT ![w] = [@ EXCEPT !.pc = "refetch",
                                                 !.sent = @ \cup {"fix-it"}]]
    /\ UNCHANGED <<depl, scoreVars, spc, sjobs, hk, pureVars>>

\* a variant that persists whatever the re-fetch gave
AfterRefetchPersistsAnyway(err) == "persist"

\* if err != nil { continue }, else PersistProgress
AfterRefetch(err) == IF err THEN "idle" ELSE "persist"

\* the re-fetch after applying the codes
WorkerRefetches(w) ==
    /\ wk[w].pc = "refetch"
    /\ \E fail \in FailChoices :
         LET r == getCurrentChallengeProgress(live[wk[w].team], fail) IN
         /\ Spend(fail # {})
         /\ wk' = [wk EXCEPT ![w] =
                     IF AfterRefetch(r.err) = "idle" THEN IdleWorker
                     ELSE [@ EXCEPT !.pc = "persist", !.cur = r.p]]
    /\ UNCHANGED <<depl, scoreVars, live, spc, sjobs, hk, pureVars>>

\* PersistProgress(clientset, team, currentProgress...), then the next job
WorkerPersists(w) ==
    /\ wk[w].pc = "persist"
    /\ depl' = PersistProgress(depl, wk[w].team, wk[w].cur.challenges,
                               wk[w].cur.findIt, wk[w].cur.fixIt)
    /\ stream' = EmitPersist(stream, depl', wk[w].team)
    /\ wk' = [wk EXCEPT ![w] = IdleWorker]
    /\ UNCHANGED <<envBudget, wpc, wev, currentScores, currentScoresSorted,
                   lastUpdate, mutex, now, cancelled, rd, opens,
                   live, spc, sjobs, hk, pureVars>>

WorkerStep ==
    \E w \in WorkerIds :
       \/ WorkerGets(w) \/ WorkerFetches(w) \/ WorkerAppliesMain(w)
       \/ WorkerAppliesFindIt(w) \/ WorkerAppliesFixIt(w) \/ WorkerRefetches(w)
       \/ WorkerPersists(w)

(***************************************************************************)
(* POST /team/{team}/webhook                                               *)
(***************************************************************************)
HookChallenges == SyncKeys \cup {"find-it-x", "fix-it-x"}
IsFindIt(c) == c = "find-it-x"
IsFixIt(c) == c = "fix-it-x"

\* the response is written and the request is over
Responded(h, status, persisted) ==
    [hk EXCEPT ![h] = [IdleHandler EXCEPT !.status = status, !.persisted = persisted]]

\* a variant of the handler's list that appends the challenge without the check
AppendedUnchecked(list, challenge, issuedOn) ==
    sortStable(Append(list, Ch(challenge, issuedOn)))

\* the list the handler persists for a regular challenge that is not yet solved
Appended(list, challenge, issuedOn) ==
    IF HasKey(list, challenge) THEN list
    ELSE sortStable(Append(list, Ch(challenge, issuedOn)))

\* the body does not decode: 400
HookBadJson(h) ==
    /\ hk[h].pc = "idle"
    /\ Spend(TRUE)
    /\ hk' = [hk EXCEPT ![h] = [IdleHandler EXCEPT !.status = 400]]
    /\ UNCHANGED <<depl, scoreVars, live, spc, sjobs, wk, pureVars>>

\* the request arrives and Deployments(namespace).Get answers (or fails: 500)
HookGets(h) ==
    /\ hk[h].pc = "idle"
    /\ Spend(TRUE)
    /\ \E t \in {"t1"}, c \in HookChallenges, failed \in BOOLEAN :
         hk' = [hk EXCEPT ![h] =
                  IF failed
                  THEN [IdleHandler EXCEPT !.status = 500]
                  ELSE [IdleHandler EXCEPT !.pc = "got", !.team = t, !.challenge = c,
                                           !.issuedOn = SolveTime(c), !.d = depl[t]]]
    /\ UNCHANGED <<depl, scoreVars, live, spc, sjobs, wk, pureVars>>

\* a regular challenge: ignore it when already solved, else append, sort, persist
HookRegular(h) ==
    /\ hk[h].pc = "got"
    /\ ~IsFindIt(hk[h].challenge) /\ ~IsFixIt(hk[h].challenge)
    /\ LET challengeStatus == Unmarshal(hk[h].d.challenges)
           list == Appended(challengeStatus, hk[h].challenge, hk[h].issuedOn)
       IN  IF list = challengeStatus
           THEN /\ hk' = Responded(h, 200, FALSE)
                /\ UNCHANGED <<depl, stream>>
           ELSE /\ depl' = PersistProgress(depl, hk[h].team, list,
                                           hk[h].d.findIt, hk[h].d.fixIt)
                /\ stream' = EmitPersist(stream, depl', hk[h].team)
                /\ hk' = Responded(h, 200, TRUE)
    /\ UNCHANGED <<envBudget, wpc, wev, currentScores, currentScoresSorted,
                   lastUpdate, mutex, now, cancelled, rd, opens,
                   live, spc, sjobs, wk, pureVars>>

\* a FindIt / FixIt challenge: GetCurrentChallengeProgress(team)
HookBonusFetches(h) ==
    /\ hk[h].pc = "got"
    /\ IsFindIt(hk[h].challenge) \/ IsFixIt(hk[h].challenge)
    /\ \E fail \in FailChoices :
         LET r == getCurrentChallengeProgress(live[hk[h].team], fail) IN
         /\ Spend(fail # {})
         /\ hk' = IF r.err THEN Responded(h, 500, FALSE)
                  ELSE [hk EXCEPT ![h] = [@ EXCEPT !.pc = "bonus", !.cur = r.p]]
    /\ UNCHANGED <<depl, scoreVars, live, spc, sjobs, wk, pureVars>>

\* PersistProgress with the fetched code of the category and the other code as read
HookBonusPersists(h) ==
    /\ hk[h].pc = "bonus"
    /\ depl' = PersistProgress(depl, hk[h].team, Unmarshal(hk[h].d.challenges),
                 IF IsFindIt(hk[h].challenge) THEN hk[h].cur.findIt ELSE hk[h].d.findIt,
                 IF IsFindIt(hk[h].challenge) THEN hk[h].d.fixIt ELSE hk[h].cur.fixIt)
    /\ stream' = EmitPersist(stream, depl', hk[h].team)
    /\ hk' = Responded(h, 200, TRUE)
    /\ UNCHANGED <<envBudget, wpc, wev, currentScores, currentScoresSorted,
                   lastUpdate, mutex, now, cancelled, rd, opens,
                   live, spc, sjobs, wk, pureVars>>

HandlerStep ==
    \E h \in HandlerIds :
       \/ HookBadJson(h) \/ HookGets(h) \/ HookRegular(h)
       \/ HookBonusFetches(h) \/ HookBonusPersists(h)

(***************************************************************************)
(* The team and its Juice Shop instance                                    *)
(***************************************************************************)
TeamSolves ==
    /\ Spend(TRUE)
    /\ \E k \in SyncKeys :
         /\ live["t1"].solved[k] = 0
         /\ live' = [live EXCEPT !["t1"].solved[k] = SolveTime(k)]
    /\ UNCHANGED <<depl, scoreVars, spc, sjobs, wk, hk, pureVars>>

TeamSolvesBonus ==
    /\ Spend(TRUE)
    /\ \/ live["t1"].findIt = "" /\ live' = [live EXCEPT !["t1"].findIt = "f1"]
       \/ live["t1"].fixIt = "" /\ live' = [live EXCEPT !["t1"].fixIt = "x1"]
    /\ UNCHANGED <<depl, scoreVars, spc, sjobs, wk, hk, pureVars>>

\* the instance restarts and loses its progress
InstanceRestarts ==
    /\ Spend(TRUE)
    /\ live["t1"] # FreshInstance
    /\ live' = [live EXCEPT !["t1"] = FreshInstance]
    /\ UNCHANGED <<depl, scoreVars, spc, sjobs, wk, hk, pureVars>>

InstanceStep == TeamSolves \/ TeamSolvesBonus \/ InstanceRestarts

(***************************************************************************)
(* SyncSpec: the scheduler, the workers, the webhook handlers, one instance *)
(***************************************************************************)
\* the watchdog starts on a deployment without annotations, or on one that holds
\* the progress persisted before the watchdog and the instance were restarted
InitialDeployments ==
    { Deployment(Anno(FALSE, <<>>), "", "", 1),
      Deployment(Anno(TRUE, <<Ch("A", 1)>>), "f1", "x1", 1) }

SyncStart(budget) ==
    /\ depl \in {[t \in Teams |->
                    IF t = "t1" THEN d
                    ELSE Deployment(Anno(FALSE, <<>>), "", "", 0)] :
                  d \in InitialDeployments}
    /\ envBudget = budget
    /\ live = [t \in Teams |-> FreshInstance]
    /\ spc = "list"
    /\ sjobs = <<>>
    /\ wk = [w \in WorkerIds |-> IF w = "w1" THEN IdleWorker ELSE OffWorker]
    /\ hk = [h \in HandlerIds |-> IdleHandler]
    /\ PureIdle

SyncInit == SyncStart(MaxSyncEnv) /\ ScoreIdle

SyncNext == SchedulerStep \/ WorkerStep \/ HandlerStep \/ InstanceStep

SyncSpec == SyncInit /\ [][SyncNext]_vars

(***************************************************************************)
(* ConvergeSpec: the watchdog and the scoring service on the same cluster  *)
(***************************************************************************)
ConvergeInit == SyncStart(MaxConvEnv) /\ ScoreIdle

\* the watch loop without the cancellation of its context
WatchLoopStep ==
    \/ WorkerSelect \/ OpenWatch \/ OpenWatchFails \/ RecvEvent \/ RecvClosed
    \/ WatcherLock \/ WriteMap \/ WriteSorted \/ WriteStamp \/ WatcherUnlock

ConvergeNext ==
    \/ SchedulerStep \/ WorkerStep \/ HandlerStep \/ InstanceStep
    \/ WatchLoopStep \/ StreamCloses

\* every goroutine that can step is scheduled; the environment owes nothing
ConvergeSpec ==
    /\ ConvergeInit
    /\ [][ConvergeNext]_vars
    /\ WF_vars(SchedulerStep)
    /\ \A w \in WorkerIds :
         WF_vars(WorkerGets(w) \/ WorkerFetches(w) \/ WorkerAppliesMain(w)
                 \/ WorkerAppliesFindIt(w) \/ WorkerAppliesFixIt(w)
                 \/ WorkerRefetches(w) \/ WorkerPersists(w))
    /\ \A h \in HandlerIds :
         WF_vars(HookRegular(h) \/ HookBonusFetches(h) \/ HookBonusPersists(h))
    /\ WF_vars(WatchLoopStep)

(***************************************************************************)
(* Claims on the watchdog                                                  *)
(***************************************************************************)
LiveKeys(t) == {k \in SyncKeys : live[t].solved[k] > 0}
PersistedKeys(t) == KeysOf(Unmarshal(depl[t].challenges))

\* the persisted keys are the live keys and the cache holds the score of the
\* persisted annotations
Converged(t) ==
    /\ PersistedKeys(t) = LiveKeys(t)
    /\ t \in DOMAIN currentScores
    /\ SameScoreContent(currentScores[t], calculateScore(t, depl[t], 0))

\* C7: once the live progress of the ready instance has stopped changing and no
\* further failure occurs, the persisted keys come to equal the live keys and
\* the cached score comes to equal the score of the persisted annotations.
C7_Converges == <>[]Converged("t1")

\* the same, for the runs in which neither the scheduler nor the watch loop panics
ConvergesUnlessPanic == <>[](Converged("t1") \/ spc = "panic" \/ wpc = "panic")

ApplyPcs == {"applyMain", "applyFindIt", "applyFixIt"}

\* C1: a worker sends an apply request only inside a job whose last-known
\* progress holds a solved key that the live progress fetched in that job lacks;
\* a job that took the UpdateCache or the NoOp branch sends none.
C1_ApplyOnlyWhenBehind ==
    [][\A w \in WorkerIds :
         (wk'[w].sent # wk[w].sent /\ wk'[w].sent # {})
           => /\ wk[w].pc \in ApplyPcs
              /\ KeysOf(wk[w].last) \ KeysOf(wk[w].cur.challenges) # {}]_vars

\* a job that found the instance behind and sent the three apply requests
C1_Witness ==
    \E w \in WorkerIds :
       /\ wk[w].pc = "refetch"
       /\ wk[w].sent = {"main", "find-it", "fix-it"}
       /\ KeysOf(wk[w].last) = {"A"}
       /\ wk[w].cur.challenges = <<>>

\* C8: the webhook of a regular challenge persists nothing and answers 200 when
\* the key is in the list it read; otherwise it persists that list with the key
\* appended once; and the persisted list never holds a key twice.
C8_WebhookIdempotent ==
    /\ [][\A h \in HandlerIds :
            (hk[h].pc = "got" /\ hk'[h].pc = "idle" /\ hk[h].challenge \in SyncKeys)
              => LET read == Unmarshal(hk[h].d.challenges) IN
                 /\ hk'[h].status = 200
                 /\ HasKey(read, hk[h].challenge)
                      => (~hk'[h].persisted /\ depl' = depl)
                 /\ ~HasKey(read, hk[h].challenge)
                      => /\ hk'[h].persisted
                         /\ KeysOf(Unmarshal(depl'[hk[h].team].challenges))
                              = KeysOf(read) \cup {hk[h].challenge}
                         /\ Len(Unmarshal(depl'[hk[h].team].challenges))
                              = Len(read) + 1]_vars
    /\ [](\A t \in Teams :
            LET list == Unmarshal(depl[t].challenges) IN
            \A i, j \in DOMAIN list : (list[i].Key = list[j].Key) => (i = j))

C8_Witness ==
    \E h \in HandlerIds :
       /\ hk[h].pc = "got"
       /\ hk[h].challenge = "A"
       /\ HasKey(Unmarshal(hk[h].d.challenges), "A")
       /\ HasKey(Unmarshal(hk[h].d.challenges), "B")

(***************************************************************************)
(* Claims on the long-poll calls                                           *)
(***************************************************************************)
\* C11: a waiting long-poll call (board or team) ends; it returns the empty
\* result only when the ceiling timer has fired or the context is cancelled,
\* never at the call itself or at a tick; and it returns a board or a score only
\* when the watermark is exceeded at that moment.
C11_LongPollTerminates ==
    /\ (rd.pc = "waiting") ~> (rd.pc = "done")
    /\ [][(rd.pc # "done" /\ rd'.pc = "done" /\ ~rd'.got)
            => /\ rd.pc = "waiting"
               /\ \/ rd'.why = "timeout" /\ rd'.ticks = rd.ticks
                  \/ rd'.why = "cancel" /\ cancelled]_vars
    /\ [][(rd.pc # "done" /\ rd'.pc = "done" /\ rd'.got)
            => IF rd'.kind = "board"
               THEN lastUpdate > rd'.watermark /\ rd'.result = currentScoresSorted
               ELSE /\ rd'.team \in DOMAIN currentScores
                    /\ currentScores[rd'.team].LastUpdate > rd'.watermark
                    /\ rd'.score = currentScores[rd'.team]]_vars

\* a team call that polled the cached score twice and ended by the timer
C11_Witness ==
    /\ rd.pc = "done"
    /\ ~rd.got
    /\ rd.kind = "team"
    /\ rd.why = "timeout"
    /\ rd.ticks = 2
    /\ "t1" \in DOMAIN currentScores
    /\ ~cancelled

(***************************************************************************)
(* Claims on the score calculator                                          *)
(***************************************************************************)
InCatalog(c) == c.Key \in KnownKeys

RECURSIVE DifficultySum(_)
DifficultySum(chs) ==
    IF chs = <<>> THEN 0 ELSE Difficulty(Head(chs).Key) + DifficultySum(Tail(chs))

\* C12: for a parseable progress annotation the score is 10 times the sum of the
\* difficulties of the solved entries whose key is in the catalog, plus 50 for
\* each non-empty bonus code; the challenge list is the solved entries whose key
\* is in the catalog, in their order, whatever entries with other keys lie
\* between them.
C12_ScoreFormula ==
    (fn = "scored" /\ arg.challenges.valid) =>
      LET known == SelectSeq(arg.challenges.list, InCatalog) IN
      /\ ret.Score = 10 * DifficultySum(known)
                       + (IF arg.findIt # "" THEN 50 ELSE 0)
                       + (IF arg.fixIt # "" THEN 50 ELSE 0)
      /\ ret.Challenges = known
      /\ ret.Name = "t1"
      /\ ret.InstanceReadiness = (arg.ready > 0)

\* an entry outside the catalog between two entries of it, and one bonus code
C12_Witness ==
    /\ fn = "scored"
    /\ arg.challenges.valid
    /\ arg.challenges.list = <<Ch("A", 1), Ch("X", 2), Ch("C", 3)>>
    /\ arg.findIt = "f1"
    /\ arg.fixIt = ""
    /\ ret.Score = 80
    /\ Len(ret.Challenges) = 2

\* the watch loop holds an add/modify event whose progress annotation is absent
\* or does not parse
HoldsUnparseable ==
    /\ wev.type \in {"ADDED", "MODIFIED"}
    /\ ~wev.obj.challenges.valid

\* C13: for an event whose progress annotation is absent or does not parse the
\* calculator gives score 0 and no challenges, with the readiness of the ready
\* replicas; the watch loop goes on to store that score (it does not fail), and
\* while it does the score and challenges of every other team stay as they are.
C13_UnparseableGivesZero ==
    /\ [](HoldsUnparseable =>
            /\ wev.score.Name = wev.team
            /\ wev.score.Score = 0
            /\ wev.score.Challenges = <<>>
            /\ wev.score.InstanceReadiness = (wev.obj.ready > 0))
    /\ [][(wev' # wev /\ HoldsUnparseable') => wpc' \in {"lock", "watching"}]_vars
    /\ [][(HoldsUnparseable /\ wpc = "wmap" /\ wpc' # "wmap") =>
            /\ wpc' = "wsort"
            /\ currentScores'[wev.team] = wev.score]_vars
    /\ [][(HoldsUnparseable /\ wpc \in {"lock", "wmap", "wsort", "wstamp", "unlock"}) =>
            \A u \in DOMAIN currentScores \ {wev.team} :
               /\ u \in DOMAIN currentScores'
               /\ currentScores'[u].Score = currentScores[u].Score
               /\ currentScores'[u].Challenges = currentScores[u].Challenges]_vars

\* the score of a ready team without progress annotation is stored beside a team
\* that has points
C13_Witness ==
    /\ HoldsUnparseable
    /\ wpc = "wstamp"
    /\ wev.team = "t2"
    /\ "t1" \in DOMAIN currentScores
    /\ currentScores["t1"].Score > 0
    /\ currentScores["t2"].Score = 0

(***************************************************************************)
(* Claims on EqualsIgnoringLastUpdate and GenerateContinueCode             *)
(***************************************************************************)
\* the sequence of the keys of a challenge list
KeySeq(chs) == [i \in DOMAIN chs |-> chs[i].Key]

\* C14: EqualsIgnoringLastUpdate(a, b) holds exactly when a and b have the same
\* name, score, position, sequence of challenge keys and readiness; LastUpdate
\* and the solved-at times of the challenges do not count.
C14_EqualsIffFieldsMatch ==
    fn = "equalled" =>
      LET a == arg[1]
          b == arg[2]
      IN  ret <=> /\ a.Name = b.Name
                  /\ a.Score = b.Score
                  /\ a.Position = b.Position
                  /\ KeySeq(a.Challenges) = KeySeq(b.Challenges)
                  /\ a.InstanceReadiness = b.InstanceReadiness

\* equal although the update time and a solved-at time differ
C14_Witness ==
    /\ fn = "equalled"
    /\ ret = TRUE
    /\ arg[1].LastUpdate # arg[2].LastUpdate
    /\ arg[1].Challenges = <<Ch("A", 1)>>
    /\ arg[2].Challenges = <<Ch("A", 2)>>

\* C15: the id list that is encoded holds the catalog ids of the keys that are in
\* the catalog, in input order, and nothing for a key that is not in it.
C15_UnknownKeysExcluded ==
    fn = "encoded" =>
      LET known == SelectSeq(arg, LAMBDA c : challengeIdLookup(c.Key) # 0) IN
      ret = [i \in DOMAIN known |-> challengeIdLookup(known[i].Key)]

(***************************************************************************)
(* Claims on the ApplyCode branch of the worker                            *)
(***************************************************************************)
\* what a fetch of the team's live progress can give at this moment
FetchResults(t) ==
    { getCurrentChallengeProgress(live[t], fail) : fail \in FailChoices }

\* the main code is the one encoded from the job's last-known progress; the
\* deployment is written by no step of the worker before the re-fetch; the
\* re-fetch that fails ends the job; what is persisted is what the re-fetch gave
ApplyRefetchPersist(w) ==
    /\ (wk[w].pc = "applyMain" /\ wk'[w].pc = "applyFindIt")
         => /\ "main" \in wk'[w].sent
            /\ live' \in {live,
                          [live EXCEPT ![wk[w].team] =
                              ApplyMainCode(@, GenerateContinueCode(wk[w].last))]}
    /\ (wk[w].pc \in ApplyPcs \cup {"refetch"} /\ wk'[w] # wk[w]) => depl' = depl
    /\ (wk[w].pc = "refetch" /\ wk'[w] # wk[w])
         => \E r \in FetchResults(wk[w].team) :
               IF r.err THEN wk'[w].pc = "idle"
               ELSE wk'[w].pc = "persist" /\ wk'[w].cur = r.p
    /\ (wk[w].pc = "persist" /\ wk[w].sent # {} /\ wk'[w] # wk[w])
         => /\ depl'[wk[w].team].challenges = Anno(TRUE, wk[w].cur.challenges)
            /\ depl'[wk[w].team].findIt = wk[w].cur.findIt
            /\ depl'[wk[w].team].fixIt = wk[w].cur.fixIt

\* the categories whose last-known code the worker holds
KnownCategories(w) ==
    {"main"} \cup (IF wk[w].lastFindIt # "" THEN {"find-it"} ELSE {})
             \cup (IF wk[w].lastFixIt # "" THEN {"fix-it"} ELSE {})

\* C16 (as stated): in the ApplyCode branch the worker sends an apply request for
\* the main category and for each of the two bonus categories, and only then
\* re-fetches and persists what it re-fetched; a failed re-fetch persists nothing.
C16_AppliesAllThree ==
    [][\A w \in WorkerIds :
         /\ (wk[w].pc = "applyFixIt" /\ wk'[w].pc = "refetch")
              => wk'[w].sent = {"main", "find-it", "fix-it"}
         /\ ApplyRefetchPersist(w)]_vars

\* C16 (amended): in the ApplyCode branch the worker sends an apply request for
\* the main category and for each bonus category whose last-known code, read
\* from the deployment at the start of the job, is not empty, and only then
\* re-fetches and persists what it re-fetched; a failed re-fetch persists nothing.
C16_AppliesKnownCodes ==
    [][\A w \in WorkerIds :
         /\ (wk[w].pc = "applyFixIt" /\ wk'[w].pc = "refetch")
              => wk'[w].sent = KnownCategories(w)
         /\ ApplyRefetchPersist(w)]_vars

\* a job that applied the main code alone, re-fetched and is about to persist
C16_Witness ==
    \E w \in WorkerIds :
       /\ wk[w].pc = "persist"
       /\ wk[w].sent = {"main"}
       /\ wk[w].lastFindIt = ""
       /\ KeysOf(wk[w].last) = {"A"}
       /\ KeysOf(wk[w].cur.challenges) = {"A"}

\* C17: when the fetch of the live progress fails the worker ends the job with no
\* apply request sent and nothing persisted, and its next step is to receive a
\* job; the scheduler's next enumeration holds a job for every team that is
\* ready then, the team of the dropped job among them.
C17_FetchFailureDropsJob ==
    /\ [][\A w \in WorkerIds :
            (wk[w].pc = "fetch" /\ wk'[w].fetchErr)
              => /\ wk'[w].pc = "idle"
                 /\ wk'[w].sent = {}
                 /\ depl' = depl
                 /\ live' = live]_vars
    /\ [][\A w \in WorkerIds :
            (wk[w].fetchErr /\ wk'[w] # wk[w])
              => wk[w].pc = "idle" /\ wk'[w].pc = "get" /\ sjobs # <<>>
                 /\ wk'[w].team = Head(sjobs).Team]_vars
    /\ [][(spc = "list" /\ spc' \in {"send", "sleep"})
            => \A t \in Teams :
                 (depl[t].exists /\ depl[t].ready = 1)
                   <=> (\E i \in DOMAIN sjobs' : sjobs'[i].Team = t)]_vars

\* the job of t1 was dropped and the next cycle offers t1 again
C17_Witness ==
    \E w \in WorkerIds :
       /\ wk[w].fetchErr
       /\ wk[w].pc = "idle"
       /\ spc = "send"
       /\ Head(sjobs).Team = "t1"
       /\ Head(sjobs).LastChallengeProgress # <<>>

(***************************************************************************)
(* Claims on failures and cancellation                                     *)
(***************************************************************************)
\* C18: whatever the outcome of the list call, the scheduler goes on: it leaves
\* the call to send the jobs or to sleep until the next cycle.
C18_ListFailureNotFatal ==
    [][(spc = "list" /\ spc' # "list") => spc' \in {"send", "sleep"}]_vars

\* C19: whatever the outcome of the Watch call, the worker goes on: it leaves the
\* call into the event loop or back into the driving loop, which opens a watch
\* again unless the context is cancelled.
C19_WatchFailureRetried ==
    [][(wpc = "open" /\ wpc' # "open") => wpc' \in {"watching", "outer"}]_vars

\* C20: once the context is cancelled the worker comes to return from
\* StartingScoringWorker with the watch stopped.
C20_ReturnsAfterCancel ==
    cancelled ~> (wpc = "done" /\ ~stream.open)

(***************************************************************************)
(* PoolSpec: the scheduler and the whole worker pool on two instances      *)
(***************************************************************************)
\* StartBackgroundSync with workerCount = 2; either deployment starts ready or
\* not, with or without persisted progress
PoolInit ==
    /\ depl \in [Teams -> {[d EXCEPT !.ready = r] : d \in InitialDeployments, r \in {0, 1}}]
    /\ envBudget = MaxPoolEnv
    /\ live = [t \in Teams |-> FreshInstance]
    /\ spc = "list"
    /\ sjobs = <<>>
    /\ wk = [w \in WorkerIds |-> IdleWorker]
    /\ hk = [h \in HandlerIds |-> IdleHandler]
    /\ PureIdle
    /\ ScoreIdle

PoolNext == SchedulerStep \/ WorkerStep \/ ClusterReadiness

PoolSpec == PoolInit /\ [][PoolNext]_vars

(***************************************************************************)
(* Claims on the scheduler and the worker pool                             *)
(***************************************************************************)
\* C21: the enumeration of a cycle yields exactly one job for every listed
\* instance with ReadyReplicas = 1 and none for any other; a job carries the
\* team and the list parsed from the annotation as listed (empty when absent
\* or malformed); the jobs are sent one by one, unchanged, each to one worker,
\* and the cycle ends only when all of them are sent.
C21_OneJobPerReadyInstance ==
    /\ [][(spc = "list" /\ spc' \in {"send", "sleep"})
            => /\ \A t \in Teams :
                    Cardinality({i \in DOMAIN sjobs' : sjobs'[i].Team = t})
                      = IF depl[t].exists /\ depl[t].ready = 1 THEN 1 ELSE 0
               /\ \A i \in DOMAIN sjobs' :
                    LET a == depl[sjobs'[i].Team].challenges IN
                    sjobs'[i].LastChallengeProgress = IF a.valid THEN a.list ELSE <<>>]_vars
    /\ [][(spc = "send" /\ sjobs' # sjobs)
            => /\ sjobs' = Tail(sjobs)
               /\ \E w \in WorkerIds :
                    /\ wk[w].pc = "idle" /\ wk'[w].pc = "get"
                    /\ wk'[w].team = Head(sjobs).Team
                    /\ wk'[w].last = Head(sjobs).LastChallengeProgress
                    /\ \A v \in WorkerIds \ {w} : wk'[v] = wk[v]]_vars
    /\ [][(spc = "send" /\ spc' # "send") => (spc' = "sleep" /\ sjobs' = <<>>)]_vars
    /\ [][sjobs' # sjobs => spc \in {"list", "send"}]_vars

\* a cycle has just enumerated a ready instance with persisted progress and an
\* instance that is not ready: one job, for the ready one
C21_Witness ==
    /\ spc = "send"
    /\ \A w \in WorkerIds : wk[w].pc = "idle" /\ ~wk[w].fetchErr
    /\ envBudget = MaxPoolEnv
    /\ depl["t2"].ready = 0
    /\ Len(sjobs) = 1
    /\ sjobs[1] = Job("t1", <<Ch("A", 1)>>)

\* the jobs sent and not yet finished: each is held by the worker that received it
Busy == {w \in WorkerIds : wk[w].pc \notin {"idle", "off"}}

\* C22: a send completes only as the receive of a worker that was waiting for a
\* job, so every send raises the number of unfinished jobs by one, that number
\* never exceeds the worker count, and while every worker is busy the scheduler
\* stays blocked in its send: no job leaves it and it lists no instance.
C22_BackPressure ==
    /\ [][(spc = "send" /\ sjobs # <<>> /\ sjobs' = Tail(sjobs))
            => /\ Cardinality(Busy') = Cardinality(Busy) + 1
               /\ Cardinality(Busy') <= Cardinality(WorkerIds)]_vars
    /\ [][(spc = "send" /\ Busy = WorkerIds) => (spc' = "send" /\ sjobs' = sjobs)]_vars
    /\ [][(Busy' # Busy /\ Cardinality(Busy') > Cardinality(Busy))
            => (spc = "send" /\ sjobs # <<>> /\ sjobs' = Tail(sjobs))]_vars

\* both workers hold a job of the first cycle and the scheduler, in its second
\* cycle, is blocked with two jobs to send
C22_Witness ==
    /\ Busy = WorkerIds
    /\ Cardinality(WorkerIds) = 2
    /\ spc = "send"
    /\ Len(sjobs) = 2

(***************************************************************************)
(* Claims on what a job persists                                           *)
(***************************************************************************)
\* the live bonus codes of the team's instance equal the persisted ones
BonusCodesEqual(t) ==
    live[t].findIt = depl[t].findIt /\ live[t].fixIt = depl[t].fixIt

\* C23: a job in the NoOp branch goes on to persist only if a live bonus code
\* differs from the persisted one, ends without persisting only if both are
\* equal, and its persist call leaves the persisted key set as it was.
C23_NoOpPersistsOnlyBonus ==
    /\ [][\A w \in WorkerIds :
            (/\ wk[w].pc = "fetch" /\ wk'[w].pc = "persist"
             /\ CompareChallengeStates(wk'[w].cur.challenges, wk[w].last) = "NoOp")
              => ~BonusCodesEqual(wk[w].team)]_vars
    /\ [][\A w \in WorkerIds :
            (wk[w].pc = "fetch" /\ wk'[w].pc = "idle" /\ ~wk'[w].fetchErr)
              => BonusCodesEqual(wk[w].team)]_vars
    /\ [][\A w \in WorkerIds :
            (/\ wk[w].pc = "persist" /\ wk'[w].pc = "idle" /\ wk[w].sent = {}
             /\ CompareChallengeStates(wk[w].cur.challenges, wk[w].last) = "NoOp")
              => KeysOf(Unmarshal(depl'[wk[w].team].challenges))
                   = KeysOf(Unmarshal(depl[wk[w].team].challenges))]_vars

(***************************************************************************)
(* Claims on the stamping of the cache                                     *)
(***************************************************************************)
\* C24: a step that changes the map or the ranked copy either stamps a later
\* last-update time itself or lies inside the watch loop's critical section
\* before its stamp, which is taken before the unlock; so whenever the mutex is
\* free no entry of the map is as new as or newer than the last-update time, and
\* a ranked-board reader whose watermark predates the entry sees it exceeded.
C24_EveryChangeStamps ==
    /\ [][(currentScores' # currentScores \/ currentScoresSorted' # currentScoresSorted)
            => \/ After(lastUpdate', lastUpdate)
               \/ mutex = "watcher" /\ mutex' = "watcher" /\ wpc \in {"wmap", "wsort"}]_vars
    /\ [][(wpc = "wmap" /\ wpc' # wpc) => wpc' = "wsort"]_vars
    /\ [][(wpc = "wsort" /\ wpc' # wpc) => wpc' = "wstamp"]_vars
    /\ [][(wpc = "wstamp" /\ wpc' # wpc)
            => (wpc' = "unlock" /\ mutex' = "watcher" /\ After(lastUpdate', lastUpdate))]_vars
    /\ [][(mutex = "watcher" /\ mutex' = "free") => wpc = "unlock"]_vars
    /\ [](mutex = "free"
            => \A t \in DOMAIN currentScores :
                 After(lastUpdate, currentScores[t].LastUpdate))

\* C25: the persist call that ends a job of the ApplyCode branch leaves every
\* key of the job's last-known progress in the persisted list, and a job of
\* that branch that ends without the call leaves the annotations as they were.
C25_ApplyJobKeepsKeys ==
    /\ [][\A w \in WorkerIds :
            (wk[w].pc = "persist" /\ "main" \in wk[w].sent /\ wk'[w].pc = "idle")
              => KeysOf(wk[w].last)
                   \subseteq KeysOf(Unmarshal(depl'[wk[w].team].challenges))]_vars
    /\ [][\A w \in WorkerIds :
            (wk[w].pc = "refetch" /\ wk'[w].pc = "idle") => depl' = depl]_vars

\* C26: a job goes on to its persist call with a non-empty code of a bonus
\* category whenever the persisted code of that category is non-empty and
\* either the instance holds a code of that category (so that only a failed
\* fetch of it yields the empty one) or the job took the ApplyCode branch after
\* its Get of the deployment failed (so that it knew no code to apply again);
\* and the persist call writes the codes the job carries.
C26_FailureKeepsBonusCodes ==
    /\ [][\A w \in WorkerIds :
            (wk[w].pc \in {"fetch", "refetch"} /\ wk'[w].pc = "persist")
              => LET t == wk[w].team
                     blind == wk[w].getErr /\ "main" \in wk[w].sent
                 IN
                 /\ (depl[t].findIt # "" /\ (live[t].findIt # "" \/ blind))
                      => wk'[w].cur.findIt # ""
                 /\ (depl[t].fixIt # "" /\ (live[t].fixIt # "" \/ blind))
                      => wk'[w].cur.fixIt # ""]_vars
    /\ [][\A w \in WorkerIds :
            (wk[w].pc = "persist" /\ wk'[w].pc = "idle" /\ depl[wk[w].team].exists)
              => /\ depl'[wk[w].team].findIt = wk[w].cur.findIt
                 /\ depl'[wk[w].team].fixIt = wk[w].cur.fixIt]_vars

(***************************************************************************)
(* Claims on concurrent writers                                            *)
(***************************************************************************)
\* C27: a key that another writer has persisted since a webhook handler read
\* the deployment, or since a job's last-known progress was listed, is still
\* in the persisted list after the handler's or the job's own persist call.
C27_NoLostSolve ==
    /\ [][\A h \in HandlerIds :
            (hk[h].pc \in {"got", "bonus"} /\ hk'[h].pc = "idle" /\ hk'[h].persisted)
              => (PersistedKeys(hk[h].team) \ KeysOf(Unmarshal(hk[h].d.challenges)))
                   \subseteq KeysOf(Unmarshal(depl'[hk[h].team].challenges))]_vars
    /\ [][\A w \in WorkerIds :
            (wk[w].pc = "persist" /\ wk'[w].pc = "idle")
              => (PersistedKeys(wk[w].team) \ KeysOf(wk[w].last))
                   \subseteq KeysOf(Unmarshal(depl'[wk[w].team].challenges))]_vars

====

